---- MODULE Spec2Model ----
(***************************************************************************)
(* Model of machine_learning/recommendation_system_example__movie_        *)
(* recommender.ipynb: the hybrid scorer (hybrid_predict), the Flask views  *)
(* (home, recommend, shutdown), the accept loop (run_flask) and the        *)
(* notebook-level start_flask / stop_flask.                                *)
(*                                                                         *)
(* Scores are scaled integers: a model score s stands for the float s, and *)
(* a hybrid score h stands for h / 10, so 0.7*cf + 0.3*cb is 7*cf + 3*cb.  *)
(***************************************************************************)
EXTENDS Integers, Sequences, FiniteSets, TLC

\* ---------------------------------------------------------------- bounds
\* Longest movieIds / genres_lists list a request body carries.
MaxLen == 3
\* Number of client requests in a run of the server.
MaxRequests == 2
\* Number of server threads start_flask creates in a run.
MaxThreads == 2

\* ------------------------------------------------------- program constants
\* HashingTF(numFeatures=1000)
NumFeatures == 1000
\* 0.7 and 0.3 of hybrid_predict, times ten
WeightCF == 7
WeightCB == 3

\* ------------------------------------------------------------- the corpus
\* Distinct userId / movieId labels of the fitting corpus, in the order the
\* StringIndexer stages number them (index = position - 1).
TrainUsers == <<1>>
TrainMovies == <<1, 3>>
\* Identifiers a request may name: 2 (user) and 9 (movie) are not in the corpus.
UserIds == {1, 2}
MovieIds == {1, 3, 9}
\* Genre lists a request may carry.
GenreLists == {<<"Comedy", "Romance">>, <<"Mystery", "Thriller">>}
\* Values a fitted scorer may predict.
ScoreLevels == {0, 1}

Min(a, b) == IF a <= b THEN a ELSE b

SeqsUpTo(S, n) == UNION {[1..k -> S] : k \in 0..n}

Range(s) == {s[i] : i \in 1..Len(s)}

VARIABLES
    model,                \* fitted feature pipeline (PipelineModel)
    collaborative_model,  \* fitted ALS model: (user_index, movie_index) -> prediction
    content_model,        \* fitted content pipeline: (movie_vector, genre features) -> prediction
    server_active,        \* the global flag of the accept loop
    flask_thread,         \* the global thread handle; 0 is None
    thread,               \* program counter of each run_flask thread
    main,                 \* where the notebook's main thread is inside start_flask
    backlog,              \* connections queued on the listening socket
    req                   \* the client requests and their handler threads

vars == <<model, collaborative_model, content_model, server_active,
          flask_thread, thread, main, backlog, req>>

fitted == <<model, collaborative_model, content_model>>

Requests == 1..MaxRequests
Threads == 1..MaxThreads

\* ------------------------------------------------------ feature pipeline

\* murmur3 of a term, abstracted to a fixed table; "Mystery" and "Thriller"
\* collide modulo NumFeatures, as HashingTF lets terms do
TermHash(term) ==
    CASE term = "Comedy" -> 2017
      [] term = "Romance" -> 5309
      [] term = "Mystery" -> 1442
      [] term = "Thriller" -> 8442
      [] OTHER -> 7

\* HashingTF.transform: the sparse term-frequency vector of a genre list
hashingTF(genres_list) ==
    LET slot(i) == TermHash(genres_list[i]) % NumFeatures
        slots == {slot(i) : i \in 1..Len(genres_list)}
    IN  [s \in slots |-> Cardinality({i \in 1..Len(genres_list) : slot(i) = s})]

\* IDFModel.transform: each slot's frequency times the fitted weight of the slot
idf_transform(m, tf) ==
    [s \in DOMAIN tf |->
        tf[s] * (IF s \in DOMAIN m.idf THEN m.idf[s] ELSE m.idf_unseen)]

\* StringIndexerModel.transform with the default handleInvalid="error":
\* the index of a seen label; an unseen label raises.
string_index(labels, id) ==
    IF id \in Range(labels)
    THEN [ok |-> TRUE, index |-> (CHOOSE i \in 1..Len(labels) : labels[i] = id) - 1]
    ELSE [ok |-> FALSE, index |-> 0]

\* OneHotEncoderModel.transform with the default dropLast=True
one_hot(index, n) == [i \in 0..(n - 2) |-> IF i = index THEN 1 ELSE 0]

\* model.transform(input_df) of the one-row frame (userId, movieId, genres_list)
transform(m, userId, movieId, genres_list) ==
    LET u == string_index(m.user_labels, userId)
        v == string_index(m.movie_labels, movieId)
    IN  [ok |-> u.ok /\ v.ok,
         user_index |-> u.index,
         movie_index |-> v.index,
         movie_vector |-> one_hot(v.index, Len(m.movie_labels)),
         movie_genre_features |-> idf_transform(m, hashingTF(genres_list))]

\* collaborative_model.transform(...).select("prediction").collect():
\* coldStartStrategy="drop" drops the row of a pair the model has no factors for
cf_rows(cm, user_index, movie_index) ==
    IF <<user_index, movie_index>> \in DOMAIN cm
    THEN <<cm[<<user_index, movie_index>>]>>
    ELSE <<>>

\* content_model.transform(...).select("prediction").collect()
cb_rows(tm, movie_vector, movie_genre_features) ==
    <<tm[<<movie_vector, movie_genre_features>>]>>

\* the two weights exchanged
weighted_swapped(cf_score, cb_score) == WeightCB * cf_score + WeightCF * cb_score

\* 0.7 * cf_score + 0.3 * cb_score, in tenths
weighted(cf_score, cb_score) == WeightCF * cf_score + WeightCB * cb_score

\* hybrid_predict(userId, movieId, genres_list): ok = FALSE is a raised exception
hybrid_predict(userId, movieId, genres_list) ==
    LET t == transform(model, userId, movieId, genres_list)
    IN  IF ~t.ok
        THEN [ok |-> FALSE, score |-> 0]
        ELSE LET cf == cf_rows(collaborative_model, t.user_index, t.movie_index)
                 cb == cb_rows(content_model, t.movie_vector, t.movie_genre_features)
             IN  IF cf = <<>>
                 THEN [ok |-> FALSE, score |-> 0]
                 ELSE [ok |-> TRUE, score |-> weighted(cf[1], cb[1])]

\* ------------------------------------------------------------ the views

\* a pairing that stops one pair early
zip_short(a, b) == [i \in 1..(Min(Len(a), Len(b)) - 1) |-> <<a[i], b[i]>>]

\* zip(movieIds, genres_lists): stops at the end of the shorter list
zip(a, b) == [i \in 1..Min(Len(a), Len(b)) |-> <<a[i], b[i]>>]

\* list.sort's insertion of x into a list already in descending order, after
\* every entry whose score is not smaller
RECURSIVE insert_desc(_, _)
insert_desc(x, s) ==
    IF s = <<>> THEN <<x>>
    ELSE IF Head(s).score >= x.score
         THEN <<Head(s)>> \o insert_desc(x, Tail(s))
         ELSE <<x>> \o s

\* the same insertion into a list in ascending order
RECURSIVE insert_asc(_, _)
insert_asc(x, s) ==
    IF s = <<>> THEN <<x>>
    ELSE IF Head(s).score <= x.score
         THEN <<Head(s)>> \o insert_asc(x, Tail(s))
         ELSE <<x>> \o s

\* sorted(...) without reverse=True
RECURSIVE sorted_asc(_)
sorted_asc(s) ==
    IF s = <<>> THEN <<>>
    ELSE insert_asc(s[Len(s)], sorted_asc(SubSeq(s, 1, Len(s) - 1)))

Reverse(s) == [i \in 1..Len(s) |-> s[Len(s) + 1 - i]]

\* sorted(...)[::-1] in place of reverse=True
sorted_then_reversed(s) == Reverse(sorted_asc(s))

\* sorted(recommendations, key=lambda x: x['score'], reverse=True)
RECURSIVE sorted_desc(_)
sorted_desc(s) ==
    IF s = <<>> THEN <<>>
    ELSE insert_desc(s[Len(s)], sorted_desc(SubSeq(s, 1, Len(s) - 1)))

HasKeys(json) == {"userId", "movieIds", "genres_lists"} \subseteq DOMAIN json

ServerError == [status |-> 500, kind |-> "error", body |-> <<>>]

Html == [status |-> 200, kind |-> "html", body |-> <<>>]

NoResponse == [status |-> 0, kind |-> "none", body |-> <<>>]

\* the view recommend(): an exception leaving the view is Flask's 500 response
recommend(method, json) ==
    IF method = "GET" THEN Html
    ELSE IF ~HasKeys(json) THEN ServerError
    ELSE LET pairs == zip(json.movieIds, json.genres_lists)
             score(i) == hybrid_predict(json.userId, pairs[i][1], pairs[i][2])
             recommendations ==
                 [i \in 1..Len(pairs) |->
                     [movieId |-> pairs[i][1], score |-> score(i).score]]
         IN  IF \E i \in 1..Len(pairs) : ~score(i).ok
             THEN ServerError
             ELSE [status |-> 200, kind |-> "json",
                   body |-> sorted_desc(recommendations)]

\* the view home()
home == Html

\* ------------------------------------------------------------- requests

ExampleBody ==
    [userId |-> 1, movieIds |-> <<1, 3>>,
     genres_lists |-> <<<<"Comedy", "Romance">>, <<"Mystery", "Thriller">>>>]

\* JSON bodies carrying the three keys
FullBodies ==
    {[userId |-> u, movieIds |-> ms, genres_lists |-> gs] :
        u \in UserIds, ms \in SeqsUpTo(MovieIds, MaxLen),
        gs \in SeqsUpTo(GenreLists, MaxLen)}

\* JSON bodies lacking one of the keys
MissingKeyBodies ==
    {[movieIds |-> ExampleBody.movieIds, genres_lists |-> ExampleBody.genres_lists],
     [userId |-> 1, genres_lists |-> ExampleBody.genres_lists],
     [userId |-> 1, movieIds |-> ExampleBody.movieIds]}

NoJson == [none |-> TRUE]

Post(path, json) == [method |-> "POST", path |-> path, json |-> json]

Get(path) == [method |-> "GET", path |-> path, json |-> NoJson]

\* what the clients of the served application send
ServedRequests ==
    {Get("/"), Get("/recommend"), Post("/shutdown", NoJson)}
    \cup {Post("/recommend", b) : b \in {ExampleBody} \cup MissingKeyBodies}

\* what the view recommend() is applied to
RecommendRequests ==
    {Get("/recommend")}
    \cup {Post("/recommend", b) : b \in FullBodies \cup MissingKeyBodies}

NoRequest == [method |-> "", path |-> "", json |-> NoJson]

NewRequest ==
    [state |-> "new", rq |-> NoRequest, resp |-> NoResponse,
     by |-> 0, accepted_active |-> FALSE, after_shutdown |-> FALSE]

\* ------------------------------------------------------------- fitting

\* pipeline.fit(model_df): label order of the two indexers, IDF weights
FittedPipeline ==
    [user_labels |-> TrainUsers,
     movie_labels |-> TrainMovies,
     idf |-> [s \in UNION {DOMAIN hashingTF(g) : g \in GenreLists} |-> 1],
     idf_unseen |-> 2]

\* als.fit(features_df): factors for every indexed user and movie
CollaborativeFits ==
    [(0..(Len(TrainUsers) - 1)) \X (0..(Len(TrainMovies) - 1)) -> ScoreLevels]

ContentKeys ==
    {<<one_hot(i, Len(TrainMovies)), idf_transform(FittedPipeline, hashingTF(g))>> :
        i \in 0..(Len(TrainMovies) - 1), g \in GenreLists}

\* content_pipeline.fit(features_df)
ContentFits == [ContentKeys -> ScoreLevels]

\* the notebook after cell 11: models fitted, globals of the serving cell set
InitFitted(cfs, cbs) ==
    /\ model = FittedPipeline
    /\ collaborative_model \in cfs
    /\ content_model \in cbs
    /\ server_active = TRUE
    /\ flask_thread = 0
    /\ thread = [t \in Threads |-> "none"]
    /\ main = "idle"
    /\ backlog = <<>>
    /\ req = [r \in Requests |-> NewRequest]

\* ------------------------------------------------------------- the server

Alive(t) == thread[t] \in {"make_server", "set_active", "test", "handle_request"}

\* the thread holds the listening socket of port 8080
Listening(t) == thread[t] \in {"set_active", "test", "handle_request"}

Unborn == {t \in Threads : thread[t] = "none"}

\* threading.Thread(target=run_flask).start()
Spawn ==
    LET t == CHOOSE x \in Unborn : \A y \in Unborn : x <= y
    IN  /\ thread' = [thread EXCEPT ![t] = "make_server"]
        /\ flask_thread' = t

\* start_flask up to flask_thread.join(timeout=1), or to its end when no
\* server thread is alive
start_flask ==
    /\ main = "idle"
    /\ Unborn # {}
    /\ IF flask_thread # 0 /\ Alive(flask_thread)
       THEN /\ server_active' = FALSE
            /\ main' = "joining"
            /\ UNCHANGED <<flask_thread, thread>>
       ELSE /\ Spawn
            /\ UNCHANGED <<server_active, main>>
    /\ UNCHANGED <<fitted, backlog, req>>

\* start_flask after the join returned: the old thread ended or a second passed
start_flask_joined ==
    /\ main = "joining"
    /\ Spawn
    /\ main' = "idle"
    /\ UNCHANGED <<fitted, server_active, backlog, req>>

\* stop_flask
stop_flask ==
    /\ main = "idle"
    /\ flask_thread # 0
    /\ IF ~Alive(flask_thread)
       THEN UNCHANGED server_active
       ELSE server_active' = FALSE
    /\ UNCHANGED <<fitted, flask_thread, thread, main, backlog, req>>

\* run_flask: make_server('localhost', 8080, app, threaded=True).  With the port
\* held by another server thread the bind fails (the thread ends) or, where
\* SO_REUSEADDR lets a second socket bind the port, succeeds.
make_server(t) ==
    /\ thread[t] = "make_server"
    /\ \/ thread' = [thread EXCEPT ![t] = "set_active"]
       \/ /\ \E o \in Threads : Listening(o)
          /\ thread' = [thread EXCEPT ![t] = "failed"]
    /\ UNCHANGED <<fitted, server_active, flask_thread, main, backlog, req>>

\* run_flask: server_active = True
set_active(t) ==
    /\ thread[t] = "set_active"
    /\ server_active' = TRUE
    /\ thread' = [thread EXCEPT ![t] = "test"]
    /\ UNCHANGED <<fitted, flask_thread, main, backlog, req>>

\* run_flask: the test of `while server_active`; leaving the loop ends the
\* thread, and the last listening socket to go resets the queued connections
loop_test(t) ==
    /\ thread[t] = "test"
    /\ IF server_active
       THEN /\ thread' = [thread EXCEPT ![t] = "handle_request"]
            /\ UNCHANGED <<backlog, req>>
       ELSE /\ thread' = [thread EXCEPT ![t] = "stopped"]
            /\ IF \E o \in Threads \ {t} : Listening(o)
               THEN UNCHANGED <<backlog, req>>
               ELSE /\ backlog' = <<>>
                    /\ req' = [r \in Requests |->
                                 IF r \in Range(backlog)
                                 THEN [req[r] EXCEPT !.state = "refused"]
                                 ELSE req[r]]
    /\ UNCHANGED <<fitted, server_active, flask_thread, main>>

\* run_flask: server.handle_request() blocks until a connection is queued,
\* accepts it and, the server being threaded, hands it to a handler thread
handle_request(t) ==
    /\ thread[t] = "handle_request"
    /\ backlog # <<>>
    /\ LET r == Head(backlog)
       IN  req' = [req EXCEPT ![r].state = "handling", ![r].by = t,
                              ![r].accepted_active = server_active]
    /\ backlog' = Tail(backlog)
    /\ thread' = [thread EXCEPT ![t] = "test"]
    /\ UNCHANGED <<fitted, server_active, flask_thread, main>>

ShutdownHandled ==
    \E q \in Requests : req[q].rq.path = "/shutdown" /\ req[q].state = "done"

\* a client connects and sends one of rqs: queued when a socket listens, else
\* refused
client_send(r, rqs) ==
    /\ req[r].state = "new"
    /\ \E rq \in rqs :
        IF \E t \in Threads : Listening(t)
        THEN /\ backlog' = Append(backlog, r)
             /\ req' = [req EXCEPT ![r].state = "pending", ![r].rq = rq,
                          ![r].after_shutdown = (~server_active /\ ShutdownHandled)]
        ELSE /\ req' = [req EXCEPT ![r].state = "refused", ![r].rq = rq]
             /\ UNCHANGED backlog
    /\ UNCHANGED <<fitted, server_active, flask_thread, thread, main>>

\* one of rqs reaches the application without the socket (app.test_client)
dispatch(r, rqs) ==
    /\ req[r].state = "new"
    /\ \E rq \in rqs : req' = [req EXCEPT ![r].state = "handling", ![r].rq = rq]
    /\ UNCHANGED <<fitted, server_active, flask_thread, thread, main, backlog>>

\* Flask's routing of a request to home() or recommend()
view(rq) ==
    IF rq.path = "/" THEN home ELSE recommend(rq.method, rq.json)

\* a handler that fits the pipeline on the request's first row (pipeline.fit in
\* place of model.transform) before answering
respond_refitting(r) ==
    /\ req[r].state = "handling"
    /\ req[r].rq.path # "/shutdown"
    /\ req' = [req EXCEPT ![r].state = "done", ![r].resp = view(req[r].rq)]
    /\ model' = IF /\ req[r].rq.method = "POST"
                   /\ HasKeys(req[r].rq.json)
                   /\ Len(req[r].rq.json.movieIds) >= 1
                THEN [model EXCEPT !.movie_labels = <<req[r].rq.json.movieIds[1]>>]
                ELSE model
    /\ UNCHANGED <<collaborative_model, content_model, server_active,
                   flask_thread, thread, main, backlog>>

\* the handler thread of a request to / or /recommend runs the view and responds
respond(r) ==
    /\ req[r].state = "handling"
    /\ req[r].rq.path # "/shutdown"
    /\ req' = [req EXCEPT ![r].state = "done", ![r].resp = view(req[r].rq)]
    /\ UNCHANGED <<fitted, server_active, flask_thread, thread, main, backlog>>

\* shutdown(): server_active = False.  The shutdown_worker thread it starts only
\* sleeps and joins the server thread for 0.1 s: it changes no state.
shutdown(r) ==
    /\ req[r].state = "handling"
    /\ req[r].rq.path = "/shutdown"
    /\ server_active' = FALSE
    /\ req' = [req EXCEPT ![r].state = "responding"]
    /\ UNCHANGED <<fitted, flask_thread, thread, main, backlog>>

\* shutdown(): return jsonify({"status": "Server shutting down..."})
shutdown_respond(r) ==
    /\ req[r].state = "responding"
    /\ req' = [req EXCEPT ![r].state = "done",
                 ![r].resp = [status |-> 200, kind |-> "json", body |-> <<>>]]
    /\ UNCHANGED <<fitted, server_active, flask_thread, thread, main, backlog>>

\* ------------------------------------------------------ specifications

\* two fitting outcomes for the served application
ServedCollaborativeFits ==
    {cm \in CollaborativeFits : cm[<<0, 0>>] = 1 /\ cm[<<0, 1>>] = 0}

ServedContentFits ==
    {tm \in ContentFits : \A k \in ContentKeys : tm[k] = 1}

Init == InitFitted(ServedCollaborativeFits, ServedContentFits)

Next ==
    \/ start_flask
    \/ start_flask_joined
    \/ stop_flask
    \/ \E t \in Threads : make_server(t)
    \/ \E t \in Threads : set_active(t)
    \/ \E t \in Threads : loop_test(t)
    \/ \E t \in Threads : handle_request(t)
    \/ \E r \in Requests : client_send(r, ServedRequests)
    \/ \E r \in Requests : respond(r)
    \/ \E r \in Requests : shutdown(r)
    \/ \E r \in Requests : shutdown_respond(r)

Spec == Init /\ [][Next]_vars

\* The threads of the program are scheduled fairly; clients and the notebook's
\* user owe the program no further request or call.
Fairness ==
    /\ \A t \in Threads : WF_vars(make_server(t))
    /\ \A t \in Threads : WF_vars(set_active(t))
    /\ \A t \in Threads : WF_vars(loop_test(t))
    /\ \A t \in Threads : WF_vars(handle_request(t))
    /\ \A r \in Requests : WF_vars(respond(r))
    /\ \A r \in Requests : WF_vars(shutdown(r))
    /\ \A r \in Requests : WF_vars(shutdown_respond(r))
    /\ WF_vars(start_flask_joined)

FairSpec == Init /\ [][Next]_vars /\ Fairness

\* the view recommend() applied to every request body, under every fitting
RecInit == InitFitted(CollaborativeFits, ContentFits)

RecNext ==
    \/ dispatch(1, RecommendRequests)
    \/ respond(1)

RecSpec == RecInit /\ [][RecNext]_vars

\* ---------------------------------------------------------------- claims

\* request r is a POST /recommend that has been answered
Answered(r) ==
    /\ req[r].state = "done"
    /\ req[r].rq.method = "POST"
    /\ req[r].rq.path = "/recommend"

\* ... whose body has the three keys and lists of equal length
AnsweredEqual(r) ==
    /\ Answered(r)
    /\ HasKeys(req[r].rq.json)
    /\ Len(req[r].rq.json.movieIds) = Len(req[r].rq.json.genres_lists)

\* every hybrid_predict call of the request returns a score
AllScored(json) ==
    \A i \in 1..Len(json.movieIds) :
        hybrid_predict(json.userId, json.movieIds[i], json.genres_lists[i]).ok

Count(s, x) == Cardinality({i \in 1..Len(s) : s[i] = x})

\* the entries of the request in input order, each with its hybrid score
InputEntries(json) ==
    [i \in 1..Len(json.movieIds) |->
        [movieId |-> json.movieIds[i],
         score |-> hybrid_predict(json.userId, json.movieIds[i],
                                  json.genres_lists[i]).score]]

\* C1: a POST /recommend with lists of equal length n, all of whose pairs are
\* scored, is answered with exactly n entries whose movieIds are the input
\* movieIds, each as often as the input names it.
C1_SameLengthPermutation ==
    \A r \in Requests :
        (AnsweredEqual(r) /\ AllScored(req[r].rq.json)) =>
            /\ req[r].resp.status = 200
            /\ Len(req[r].resp.body) = Len(req[r].rq.json.movieIds)
            /\ \A m \in MovieIds :
                Count([i \in 1..Len(req[r].resp.body) |-> req[r].resp.body[i].movieId], m)
                    = Count(req[r].rq.json.movieIds, m)

\* a scored request of MaxLen entries, one movie named twice, answered in an
\* order other than the input's
C1_Witness ==
    \E r \in Requests :
        /\ AnsweredEqual(r) /\ AllScored(req[r].rq.json)
        /\ Len(req[r].rq.json.movieIds) = MaxLen
        /\ \E m \in MovieIds : Count(req[r].rq.json.movieIds, m) = 2
        /\ req[r].resp.body[1].movieId # req[r].rq.json.movieIds[1]

\* C2: the list a POST /recommend answers with is in descending order of score.
C2_SortedDescending ==
    \A r \in Requests :
        (Answered(r) /\ req[r].resp.status = 200) =>
            \A i \in 1..(Len(req[r].resp.body) - 1) :
                req[r].resp.body[i].score >= req[r].resp.body[i + 1].score

\* an answer of MaxLen entries whose input came in strictly ascending order of score
C2_Witness ==
    \E r \in Requests :
        /\ AnsweredEqual(r) /\ AllScored(req[r].rq.json)
        /\ Len(req[r].resp.body) = MaxLen
        /\ InputEntries(req[r].rq.json)[1].score < InputEntries(req[r].rq.json)[2].score
        /\ InputEntries(req[r].rq.json)[2].score < InputEntries(req[r].rq.json)[3].score

Ties(s, v) == SelectSeq(s, LAMBDA e : e.score = v)

\* C3: entries of equal score keep their input order in the answer: for every
\* score, the answer's entries of that score are the input's entries of that
\* score, in input order.
C3_TiesKeepInputOrder ==
    \A r \in Requests :
        (AnsweredEqual(r) /\ AllScored(req[r].rq.json)) =>
            \A e \in Range(InputEntries(req[r].rq.json)) :
                Ties(req[r].resp.body, e.score)
                    = Ties(InputEntries(req[r].rq.json), e.score)

\* two different movies tie, behind an entry that came last and scored higher
C3_Witness ==
    \E r \in Requests :
        /\ AnsweredEqual(r) /\ AllScored(req[r].rq.json)
        /\ Len(req[r].rq.json.movieIds) = 3
        /\ LET in == InputEntries(req[r].rq.json)
           IN  /\ in[1].score = in[2].score
               /\ in[1].movieId # in[2].movieId
               /\ in[3].score > in[1].score
               /\ req[r].resp.body = <<in[3], in[1], in[2]>>

\* C4: a POST /recommend whose lists differ in length is answered with a
\* client error (4xx): not with a 200 built from the first pairs, not with a
\* failure of the handler.
C4_MismatchIsClientError ==
    \A r \in Requests :
        (/\ Answered(r)
         /\ HasKeys(req[r].rq.json)
         /\ Len(req[r].rq.json.movieIds) # Len(req[r].rq.json.genres_lists))
            => req[r].resp.status \in 400..499

\* the request names a user or a movie the fitting corpus does not hold
ColdStart(json) ==
    /\ Len(json.movieIds) >= 1
    /\ \/ json.userId \notin Range(model.user_labels)
       \/ \E i \in 1..Len(json.movieIds) :
            json.movieIds[i] \notin Range(model.movie_labels)

\* C5: a POST /recommend naming a user or movie unseen in fitting is still
\* answered with a ranked list of all its entries.
C5_ColdStartAnswered ==
    \A r \in Requests :
        (AnsweredEqual(r) /\ ColdStart(req[r].rq.json)) =>
            /\ req[r].resp.status = 200
            /\ Len(req[r].resp.body) = Len(req[r].rq.json.movieIds)

\* C6: once server_active is False, an accept loop that is running leaves its
\* while loop, with no further request arriving.
C6_StopSignalStopsLoop ==
    \A t \in Threads :
        (~server_active /\ thread[t] \in {"test", "handle_request"})
            ~> (thread[t] = "stopped")

\* C7: while server_active is False after a handled POST /shutdown, the accept
\* loop accepts no request that arrived after the shutdown was handled.
C7_NoAcceptAfterShutdown ==
    [][\A r \in Requests :
        (/\ req[r].state = "pending"
         /\ req[r].after_shutdown
         /\ req'[r].state = "handling") => server_active]_vars

\* C8: an accept loop has not left its while loop while a request it accepted
\* before the stop signal is still being handled.
C8_LoopWaitsForInFlight ==
    \A r \in Requests :
        (req[r].state \in {"handling", "responding"} /\ req[r].accepted_active)
            => thread[req[r].by] # "stopped"

\* C9: every score a POST /recommend reports is 0.7 times the collaborative
\* score plus 0.3 times the content score (in tenths: 7*cf + 3*cb) of the
\* request's user and one of its (movieId, genres_list) pairs.
C9_WeightedCombination ==
    \A r \in Requests :
        (Answered(r) /\ req[r].resp.status = 200) =>
            \A k \in 1..Len(req[r].resp.body) :
                \E i \in 1..Min(Len(req[r].rq.json.movieIds),
                                Len(req[r].rq.json.genres_lists)) :
                    LET t == transform(model, req[r].rq.json.userId,
                                       req[r].rq.json.movieIds[i],
                                       req[r].rq.json.genres_lists[i])
                        cf == cf_rows(collaborative_model, t.user_index, t.movie_index)
                        cb == cb_rows(content_model, t.movie_vector,
                                      t.movie_genre_features)
                    IN  /\ req[r].resp.body[k].movieId = req[r].rq.json.movieIds[i]
                        /\ req[r].resp.body[k].score = 7 * cf[1] + 3 * cb[1]

\* an answer reporting a score whose two parts differ
C9_Witness ==
    \E r \in Requests :
        /\ Answered(r) /\ req[r].resp.status = 200
        /\ \E k \in 1..Len(req[r].resp.body) : req[r].resp.body[k].score \in {3, 7}

\* C10: the answer to a POST /recommend whose body lacks a required key is a
\* client error (4xx), and answering it leaves server_active and the accept
\* loops as they were.
C10_MissingKeyClientError ==
    [][\A r \in Requests :
        (/\ req[r].state = "handling"
         /\ req[r].rq.method = "POST"
         /\ req[r].rq.path = "/recommend"
         /\ ~HasKeys(req[r].rq.json)
         /\ req'[r].state = "done")
            => /\ req'[r].resp.status \in 400..499
               /\ server_active' = server_active
               /\ thread' = thread]_vars

\* the part of C10 the program keeps: answering a request to / or /recommend
\* changes neither server_active nor any accept loop
AnswerNotFatal ==
    [][\A r \in Requests :
        (req[r].state = "handling" /\ req[r].rq.path # "/shutdown"
         /\ req'[r].state = "done")
            => (server_active' = server_active /\ thread' = thread)]_vars

\* C11: no step of the served application (a view answering, the accept loop,
\* start_flask, stop_flask, a client connecting) changes the fitted pipeline,
\* the collaborative model or the content model, and two POST /recommend with
\* the same body are answered alike, whatever ran between them.
C11_ServingKeepsFittedState ==
    [][/\ model' = model
       /\ collaborative_model' = collaborative_model
       /\ content_model' = content_model
       /\ \A r, q \in Requests :
            (/\ req'[r].state = "done" /\ req'[q].state = "done"
             /\ req'[r].rq = req'[q].rq)
                => req'[r].resp = req'[q].resp]_vars

\* two POST /recommend with the same body have been answered with scores, and
\* start_flask has started a second server thread
C11_Witness ==
    /\ \E r, q \in Requests :
        /\ r # q
        /\ Answered(r) /\ Answered(q)
        /\ req[r].rq = req[q].rq
        /\ req[r].resp.status = 200
        /\ Len(req[r].resp.body) >= 2
    /\ \E t \in Threads : t # 1 /\ thread[t] # "none"

\* the thread is inside the while loop of run_flask
InLoop(t) == thread[t] \in {"test", "handle_request"}

\* every thread of the program has run as far as it can without a further
\* client request or notebook call
Settled ==
    /\ \A t \in Threads : thread[t] \notin {"make_server", "set_active", "test"}
    /\ (\E t \in Threads : thread[t] = "handle_request") => backlog = <<>>
    /\ \A r \in Requests : req[r].state \notin {"handling", "responding"}

\* C12: once start_flask has returned and the threads have run as far as they
\* can, every server thread started before the current one has left run_flask,
\* and at most one accept loop is running.
C12_RestartLeavesSingleServer ==
    (main = "idle" /\ Settled) =>
        /\ \A o \in Threads : o # flask_thread => ~Alive(o)
        /\ Cardinality({t \in Threads : InLoop(t)}) <= 1

\* start_flask has returned from a restart while the earlier thread is still
\* blocked in handle_request, and the thread it started has ended on the bind
RestartLeavesBlockedLoop ==
    /\ main = "idle"
    /\ flask_thread = 2
    /\ thread[1] = "handle_request"
    /\ thread[2] = "failed"

\* the earlier loop, blocked in handle_request over the restart, waits for
\* requests beside the loop of the thread start_flask started, server_active
\* being True again
RestartRevivesLoop ==
    /\ main = "idle"
    /\ flask_thread = 2
    /\ server_active
    /\ thread[1] = "handle_request"
    /\ thread[2] = "handle_request"

====
